---------------------------- MODULE Spec2Model ----------------------------
(***************************************************************************)
(* A model of the retrieval core of llmReadPdf: the similarity rankers     *)
(* (retrieval.js, SemanticSearchService.js, api/src/lib/ragService.ts),     *)
(* the chunkers (chunker.js, ChunkerService.js, aiClient.ts,                *)
(* pdfProcessor.ts), the embedding gateway (embeddings.js, ragService.ts),  *)
(* the query operations (ragQuery, generateRAGAnswer, processDocument),     *)
(* the GraphQL document service (chat, uploadPDF, clearDocuments), text     *)
(* normalization (cleanText) and the model cache (initializeModel).         *)
(*                                                                         *)
(* Each area has its own specification over the one list of variables:     *)
(* SpecRank, SpecChunk (the chunkers, and the ingestion of index.js that    *)
(* follows chunkPdfContent), SpecEmbed, SpecQuery, SpecUpload (one upload   *)
(* at a time), SpecService (concurrent requests), SpecClean and SpecModel.  *)
(* The variables of the areas a specification does not run stay at their    *)
(* idle values.                                                             *)
(*                                                                         *)
(* Numbers.  Embedding components are small integers.  A cosine score is   *)
(* kept exactly, as the record [nan, sgn, p, q] that stands for the real    *)
(* number sgn * sqrt(p / q), or for NaN when nan is TRUE; scores are        *)
(* compared by cross-multiplication.  On the vectors of TestVectors the     *)
(* IEEE doubles of the code compare the same way: two scores are equal      *)
(* there only when they are computed by the same operations on the same     *)
(* operands, or are exactly 0.                                              *)
(*                                                                         *)
(* Text.  A string is a sequence of one-character strings; split, join,    *)
(* replace, trim and slice are computed character by character.            *)
(***************************************************************************)
EXTENDS Integers, Sequences, FiniteSets, TLC

VARIABLES
    impl,            \* which ranking implementation the call enters
    queryEmbedding,  \* the query's embedding: [failed, vector]
    embeddingStore,  \* sequence of [id, embedding]
    topK,            \* the topK argument, in halves (3 stands for 1.5)
    rankPc,          \* "call" before the ranking call, "done" after it
    rankResult,      \* [status, items]: what the call returned or that it threw
    chunker,         \* which chunker the call enters
    text,            \* the text handed to the chunker
    chunkSize,       \* words (characters for the character chunker) per chunk
    overlap,         \* overlapping words (characters) between chunks
    words,           \* the units the loop slices: words, or the cleaned characters
    start,           \* the loop variable: start / i / startIndex
    chunks,          \* the chunks pushed so far
    chunkPc,         \* "call", "loop", "filter", "returned", "threw"
    chunkResult,     \* what the chunker returned
    embedder,        \* which embedding entry point the call enters
    provider,        \* what the embedding provider answers for each text
    embedChunks,     \* the texts handed to the embedding call
    embedIndex,      \* the loop variable i: first item of the current batch
    batchEmbeddings, \* the embeddings of the current batch
    collected,       \* generateBatchEmbeddings' embeddings array: pushed so far
    sent,            \* the texts sent to the provider so far, in order
    embedPc,         \* "idle", "call", "batch", "item", "validate", "returned", "threw"
    embedResult,     \* what the embedding call returned
    queryPc,         \* "idle", "call", "search", "returned", "threw"
    completion,      \* what the completion provider does when it is called
    llmCalls,        \* the context blocks sent to the completion provider, in order
    response,        \* what the query operation returned to its caller
    documentStore,   \* the GraphQL service's documentStore array
    upload,          \* the uploadPDF request in progress
    uploadPc,        \* "idle", "process", "embed"
    uploadResult,    \* what the last uploadPDF returned
    uploaded,        \* the file names uploadPDF was called with so far
    rawText,         \* the string handed to cleanText
    cleanedTexts,    \* the results of the successive cleanText applications
    extractor,       \* embeddings.js' module variable: 0 for null, else a handle
    pipelineRuns,    \* how many times pipeline() has been started
    initCalls,       \* the initializeModel calls: position and handle returned
    requests,        \* the GraphQL requests being served concurrently
    cleared,         \* whether clearDocuments has run
    pushed           \* the documents pushed since the last clear: [file, count]

vars == <<impl, queryEmbedding, embeddingStore, topK, rankPc, rankResult,
          chunker, text, chunkSize, overlap, words, start, chunks, chunkPc,
          chunkResult, embedder, provider, embedChunks, embedIndex,
          batchEmbeddings, collected, sent, embedPc, embedResult,
          queryPc, completion, llmCalls, response,
          documentStore, upload, uploadPc, uploadResult, uploaded,
          rawText, cleanedTexts, extractor, pipelineRuns, initCalls,
          requests, cleared, pushed>>

rankVars == <<impl, queryEmbedding, embeddingStore, topK, rankPc, rankResult>>

chunkVars == <<chunker, text, chunkSize, overlap, words, start, chunks, chunkPc,
               chunkResult>>

embedVars == <<embedder, provider, embedChunks, embedIndex, batchEmbeddings,
               collected, sent, embedPc, embedResult>>

\* What a ranking call, a chunking call and an embedding call leave alone.
queryVars == <<queryPc, completion, llmCalls, response>>

uploadVars == <<documentStore, upload, uploadPc, uploadResult, uploaded>>

cleanVars == <<rawText, cleanedTexts>>

modelVars == <<extractor, pipelineRuns, initCalls>>

\* The concurrent document service, besides documentStore.
serviceVars == <<requests, cleared, pushed>>

nonRankVars == <<chunkVars, embedVars, queryVars, uploadVars, cleanVars, modelVars,
                 serviceVars>>

nonChunkVars == <<rankVars, embedVars, queryVars, uploadVars, cleanVars, modelVars,
                  serviceVars>>

nonEmbedVars == <<rankVars, chunkVars, queryVars, uploadVars, cleanVars, modelVars,
                  serviceVars>>

-----------------------------------------------------------------------------
(* Bounds of the model. *)

MaxStore == 3

MaxTopK == 3

\* Words of a generated input text.
MaxWords == 5

\* Largest chunk size and overlap tried besides the defaults.
MaxChunkSize == 3

\* How many chunks beyond one per unit a chunking loop is followed for: a loop
\* that advances pushes at most one chunk per unit of its input.
MaxExtraChunks == 1

-----------------------------------------------------------------------------
(* Arithmetic helpers. *)

Min(a, b) == IF a < b THEN a ELSE b

Max(a, b) == IF a > b THEN a ELSE b

Sign(x) == IF x > 0 THEN 1 ELSE IF x < 0 THEN -1 ELSE 0

\* ToIntegerOrInfinity of a number given in halves: truncation towards zero.
TruncHalves(h) == IF h >= 0 THEN h \div 2 ELSE -((-h) \div 2)

IsIntegerHalves(h) == h % 2 = 0

\* Array.prototype.slice(from, to) on a sequence, with JavaScript's relative
\* indices: a negative index counts from the end, both are clamped to the length.
RelIndex(k, len) == IF k < 0 THEN Max(len + k, 0) ELSE Min(k, len)

\* slice(from, to + 1): the end index taken as inclusive.
SliceInclusive(s, from, to) ==
    LET f == RelIndex(from, Len(s))
        t == RelIndex(to + 1, Len(s))
    IN  IF t <= f THEN <<>> ELSE SubSeq(s, f + 1, t)

Slice(s, from, to) ==
    LET f == RelIndex(from, Len(s))
        t == RelIndex(to, Len(s))
    IN  IF t <= f THEN <<>> ELSE SubSeq(s, f + 1, t)

-----------------------------------------------------------------------------
(* Cosine similarity. *)

\* The outcome of the provider call that embeds the query: a vector, or a failure.
Embedded(v) == [failed |-> FALSE, vector |-> v]

EmbedFail == [failed |-> TRUE, vector |-> <<>>]

Thrown == [threw |-> TRUE]

NaN == [nan |-> TRUE, sgn |-> 0, p |-> 0, q |-> 1]

Zero == [nan |-> FALSE, sgn |-> 0, p |-> 0, q |-> 1]

\* dot / (sqrt(na) * sqrt(nb)) for na, nb > 0.
Quotient(dot, na, nb) == [nan |-> FALSE, sgn |-> Sign(dot), p |-> dot * dot, q |-> na * nb]

RECURSIVE DotUpTo(_, _, _)
DotUpTo(a, b, n) == IF n = 0 THEN 0 ELSE DotUpTo(a, b, n - 1) + a[n] * b[n]

RECURSIVE SumSquares(_, _)
SumSquares(a, n) == IF n = 0 THEN 0 ELSE SumSquares(a, n - 1) + a[n] * a[n]

\* retrieval.js cosineSimilarity: length guard, zero-norm guard.
cosineSimilarity(vecA, vecB) ==
    IF Len(vecA) # Len(vecB) THEN Thrown
    ELSE LET dotProduct == DotUpTo(vecA, vecB, Len(vecA))
             normA == SumSquares(vecA, Len(vecA))
             normB == SumSquares(vecB, Len(vecB))
         IN  IF normA = 0 \/ normB = 0 THEN Zero
             ELSE Quotient(dotProduct, normA, normB)

\* EmbeddingService.cosineSimilarity: the same two guards.
EmbeddingService_cosineSimilarity(embedding1, embedding2) ==
    IF Len(embedding1) # Len(embedding2) THEN Thrown
    ELSE LET dotProduct == DotUpTo(embedding1, embedding2, Len(embedding1))
             norm1 == SumSquares(embedding1, Len(embedding1))
             norm2 == SumSquares(embedding2, Len(embedding2))
         IN  IF norm1 = 0 \/ norm2 = 0 THEN Zero
             ELSE Quotient(dotProduct, norm1, norm2)

\* ragService.ts cosineSimilarity: no guard.  The dot product runs over vecA's
\* indices and reads vecB[i]: undefined (so NaN) past vecB's end, and vecB's own
\* tail is never read when vecB is the longer.  Each magnitude runs over its own
\* vector.  0 / 0 is NaN; a non-zero dot product over a zero magnitude cannot
\* happen (a zero magnitude makes the dot product 0).
ragService_cosineSimilarity(vecA, vecB) ==
    IF Len(vecA) > Len(vecB) THEN NaN
    ELSE LET dotProduct == DotUpTo(vecA, vecB, Len(vecA))
             magnitudeA == SumSquares(vecA, Len(vecA))
             magnitudeB == SumSquares(vecB, Len(vecB))
         IN  IF magnitudeA = 0 \/ magnitudeB = 0 THEN NaN
             ELSE Quotient(dotProduct, magnitudeA, magnitudeB)

-----------------------------------------------------------------------------
(* Scores and Array.prototype.sort((a, b) => b.similarity - a.similarity). *)

\* s1 < s2 as numbers (neither is NaN).
ScoreLess(s1, s2) == s1.sgn * s1.p * s2.q < s2.sgn * s2.p * s1.q

ScoreEq(s1, s2) == s1.sgn * s1.p * s2.q = s2.sgn * s2.p * s1.q

\* The comparator's verdict that a must come after b: b.similarity - a.similarity
\* is positive.  A NaN difference is treated as +0 by sort.
ComesAfter(a, b) ==
    /\ ~a.similarity.nan
    /\ ~b.similarity.nan
    /\ ScoreLess(a.similarity, b.similarity)

\* A comparator is consistent when "compares equal" is transitive; with NaN
\* comparing equal to everything, it is unless the list holds a NaN score and two
\* different numbers.
ConsistentComparator(list) ==
    ~ \E i, j, k \in 1..Len(list) :
        /\ list[i].similarity.nan
        /\ ~list[j].similarity.nan
        /\ ~list[k].similarity.nan
        /\ ~ScoreEq(list[j].similarity, list[k].similarity)

\* Insert x after every element it must not precede (stable insertion).
RECURSIVE InsertStable(_, _)
InsertStable(sorted, x) ==
    IF sorted = <<>> THEN <<x>>
    ELSE IF ComesAfter(Head(sorted), x) THEN <<x>> \o sorted
         ELSE <<Head(sorted)>> \o InsertStable(Tail(sorted), x)

RECURSIVE StableSort(_, _)
StableSort(list, n) ==
    IF n = 0 THEN <<>> ELSE InsertStable(StableSort(list, n - 1), list[n])

Reorderings(list) ==
    LET n == Len(list)
    IN  { [i \in 1..n |-> list[f[i]]] :
            f \in { g \in [1..n -> 1..n] : \A i, j \in 1..n : g[i] = g[j] => i = j } }

\* What sort may leave in the array: the stable order for a consistent
\* comparator (ECMAScript 2019), and an implementation-defined order of the same
\* elements otherwise.
SortOutcomes(list) ==
    IF ConsistentComparator(list) THEN {StableSort(list, Len(list))}
    ELSE Reorderings(list)

-----------------------------------------------------------------------------
(* The ranking inputs. *)

TestVectors == { <<1, 0>>, <<0, 1>>, <<1, 1>>, <<0, 0>>, <<1>> }

\* createEmbeddingStore: the entry at position i carries id i - 1.
createEmbeddingStore(embeddings) ==
    [i \in 1..Len(embeddings) |-> [id |-> i - 1, embedding |-> embeddings[i]]]

QueryVectors == { Embedded(v) : v \in TestVectors }

Stores ==
    { createEmbeddingStore(e) : e \in UNION { [1..n -> TestVectors] : n \in 0..MaxStore } }

\* topK in halves: -1, 0, 1 .. MaxTopK, and 1.5.
TopKInputs == { 2 * k : k \in -1..MaxTopK } \cup {3}

ValidTopK(k) == IsIntegerHalves(k) /\ k > 0

Impls == {"retrieval", "semantic", "ragts"}

NoResult == [status |-> "none", items |-> <<>>]

ErrorResult == [status |-> "error", items |-> <<>>]

-----------------------------------------------------------------------------
(* The rankers.  Each returns the set of results the call can end in. *)

\* The map over the store: one {index, id, similarity} per entry, in store order.
Similarities(q, store, which) ==
    [ i \in 1..Len(store) |->
        [ index |-> i - 1,
          id |-> store[i].id,
          similarity |->
              CASE which = "retrieval" -> cosineSimilarity(q, store[i].embedding)
                [] which = "semantic" -> EmbeddingService_cosineSimilarity(q, store[i].embedding)
                [] OTHER -> ragService_cosineSimilarity(q, store[i].embedding) ] ]

Threw(sims) == \E i \in 1..Len(sims) : "threw" \in DOMAIN sims[i].similarity

\* retrieval.js performSimilaritySearch: map, sort, slice(0, topK).
performSimilaritySearch(q, store, k) ==
    LET similarities == Similarities(q, store, "retrieval")
    IN  IF Threw(similarities) THEN {ErrorResult}
        ELSE { [status |-> "ok", items |-> Slice(sorted, 0, TruncHalves(k))] :
                 sorted \in SortOutcomes(similarities) }

\* SemanticSearchService.findRelevantChunks: embed the query, map, sort, slice;
\* every error is rethrown as "Semantic search error".
SemanticSearchService_findRelevantChunks(q, store, k) ==
    IF q.failed THEN {ErrorResult}
    ELSE LET similarities == Similarities(q.vector, store, "semantic")
         IN  IF Threw(similarities) THEN {ErrorResult}
             ELSE { [status |-> "ok", items |-> Slice(sorted, 0, TruncHalves(k))] :
                      sorted \in SortOutcomes(similarities) }

\* ragService.ts findRelevantChunks: embed the query, map, sort, slice.  The
\* code returns the chunks alone; the score each was ranked by is kept beside it
\* here so that the order can be stated.
ragService_findRelevantChunks(q, store, k) ==
    IF q.failed THEN {ErrorResult}
    ELSE LET chunksWithScores == Similarities(q.vector, store, "ragts")
         IN  { [status |-> "ok", items |-> Slice(sorted, 0, TruncHalves(k))] :
                 sorted \in SortOutcomes(chunksWithScores) }

-----------------------------------------------------------------------------
(* The state of the other areas while one area is checked. *)

EmbedIdle ==
    /\ embedder = "none"
    /\ provider = <<>>
    /\ embedChunks = <<>>
    /\ embedIndex = 0
    /\ batchEmbeddings = <<>>
    /\ collected = <<>>
    /\ sent = <<>>
    /\ embedPc = "idle"
    /\ embedResult = [status |-> "none", from |-> "", items |-> <<>>]

NoResponse == [status |-> "none", answer |-> "", sources |-> <<>>]

QueryIdle ==
    /\ queryPc = "idle"
    /\ completion = "none"
    /\ llmCalls = <<>>
    /\ response = NoResponse

NoUpload == [file |-> "", readable |-> FALSE, texts |-> <<>>]

NoUploadResult == [file |-> "", success |-> FALSE, chunksCount |-> -1]

CleanIdle ==
    /\ rawText = <<>>
    /\ cleanedTexts = <<>>

ModelIdle ==
    /\ extractor = 0
    /\ pipelineRuns = 0
    /\ initCalls = <<>>

ServiceIdle ==
    /\ requests = <<>>
    /\ cleared = FALSE
    /\ pushed = <<>>

UploadIdle ==
    /\ documentStore = <<>>
    /\ upload = NoUpload
    /\ uploadPc = "idle"
    /\ uploadResult = NoUploadResult
    /\ uploaded = {}


ChunkIdle ==
    /\ chunker = "none"
    /\ text = <<>>
    /\ chunkSize = 0
    /\ overlap = 0
    /\ words = <<>>
    /\ start = 0
    /\ chunks = <<>>
    /\ chunkPc = "idle"
    /\ chunkResult = <<>>

RankInit ==
    /\ impl \in Impls
    /\ queryEmbedding \in (IF impl = "retrieval" THEN QueryVectors
                           ELSE QueryVectors \cup {EmbedFail})
    /\ embeddingStore \in Stores
    /\ topK \in TopKInputs
    /\ rankPc = "call"
    /\ rankResult = NoResult
    /\ ChunkIdle
    /\ EmbedIdle
    /\ QueryIdle
    /\ UploadIdle
    /\ CleanIdle
    /\ ModelIdle
    /\ ServiceIdle

\* A ranker that sorts and truncates the store it was handed, in place.
ReturnsSortingStore(result) ==
    /\ rankResult' = result
    /\ rankPc' = "done"
    /\ embeddingStore' =
          IF result.status = "ok"
          THEN [i \in 1..Len(result.items) |-> embeddingStore[result.items[i].index + 1]]
          ELSE embeddingStore
    /\ UNCHANGED <<impl, queryEmbedding, topK>>
    /\ UNCHANGED nonRankVars

\* The ranker's return: map, sort and slice work on arrays of their own, so
\* the store it was handed is left as it is.
Returns(result) ==
    /\ rankResult' = result
    /\ rankPc' = "done"
    /\ UNCHANGED <<impl, queryEmbedding, embeddingStore, topK>>
    /\ UNCHANGED nonRankVars

PerformSimilaritySearch ==
    /\ rankPc = "call"
    /\ impl = "retrieval"
    /\ \E r \in performSimilaritySearch(queryEmbedding.vector, embeddingStore, topK) :
          Returns(r)

SemanticFindRelevantChunks ==
    /\ rankPc = "call"
    /\ impl = "semantic"
    /\ \E r \in SemanticSearchService_findRelevantChunks(queryEmbedding, embeddingStore, topK) :
          Returns(r)

RagFindRelevantChunks ==
    /\ rankPc = "call"
    /\ impl = "ragts"
    /\ \E r \in ragService_findRelevantChunks(queryEmbedding, embeddingStore, topK) : Returns(r)

RankNext ==
    \/ PerformSimilaritySearch
    \/ SemanticFindRelevantChunks
    \/ RagFindRelevantChunks

SpecRank == RankInit /\ [][RankNext]_vars

-----------------------------------------------------------------------------
(* Properties of the rankers, checked under SpecRank. *)

Ranked == rankPc = "done" /\ rankResult.status = "ok"

IsNumber(s) == ~s.nan

ZeroNorm(v) == SumSquares(v, Len(v)) = 0

SameDimensions ==
    \A i \in 1..Len(embeddingStore) :
        Len(embeddingStore[i].embedding) = Len(queryEmbedding.vector)

\* C1: the returned sequence is ordered by score descending (each returned
\* score is a number at least as large as every score after it), and returned
\* entries of equal score keep the order in which they were inserted in the
\* store.  Stated for the calls with a positive integer topK.
C1_RankedDescendingStable ==
    (Ranked /\ ValidTopK(topK)) =>
        \A i, j \in 1..Len(rankResult.items) :
            LET a == rankResult.items[i]
                b == rankResult.items[j]
            IN  i < j =>
                    /\ IsNumber(a.similarity) /\ IsNumber(b.similarity)
                    /\ ~ScoreLess(a.similarity, b.similarity)
                    /\ ScoreEq(a.similarity, b.similarity) => a.index < b.index

\* C2: for a positive integer topK the call returns exactly min(topK, n)
\* results; it returns (no error) whenever the query was embedded and the
\* vectors have the query's length, in particular when topK exceeds n, and an
\* empty store gives an empty result.
C2_ReturnsMinTopKStoreSize ==
    (rankPc = "done" /\ ValidTopK(topK)) =>
        /\ rankResult.status = "ok" =>
              Len(rankResult.items) = Min(topK \div 2, Len(embeddingStore))
        /\ (~queryEmbedding.failed /\ SameDimensions) => rankResult.status = "ok"
        /\ (~queryEmbedding.failed /\ embeddingStore = <<>>) =>
              rankResult = [status |-> "ok", items |-> <<>>]

\* C2's case: a positive integer topK larger than a non-empty store, all of
\* whose entries are returned.
C2_Witness ==
    /\ Ranked
    /\ ValidTopK(topK)
    /\ embeddingStore # <<>>
    /\ topK \div 2 > Len(embeddingStore)
    /\ Len(rankResult.items) = Len(embeddingStore)

\* C3: a ranking call with an invalid topK (zero, negative, not an integer)
\* ends in an error and returns no result list.
C3_InvalidTopKRejected ==
    (rankPc = "done" /\ ~ValidTopK(topK)) => rankResult.status = "error"

\* C4: when the query vector or a stored vector of the same length has norm
\* zero, the call does not fail and the score of that pair is the number 0.
C4_ZeroNormScoresZero ==
    (rankPc = "done" /\ ValidTopK(topK) /\ ~queryEmbedding.failed /\ SameDimensions) =>
        /\ rankResult.status = "ok"
        /\ \A i \in 1..Len(rankResult.items) :
              LET item == rankResult.items[i]
              IN  (ZeroNorm(queryEmbedding.vector)
                     \/ ZeroNorm(embeddingStore[item.index + 1].embedding))
                  => item.similarity = Zero

\* C5: a ranking call whose query vector and some stored vector differ in
\* length ends in an error; it returns no scores.
C5_UnequalLengthsRejected ==
    (rankPc = "done" /\ ValidTopK(topK) /\ ~queryEmbedding.failed /\ ~SameDimensions) =>
        rankResult.status = "error"

-----------------------------------------------------------------------------
(* Strings: sequences of one-character strings. *)

IsWhitespace(c) == c \in {" ", "\n", "\t"}

\* The index of the first character at or after i that P rejects (Len + 1 if none).
RECURSIVE SkipWhitespace(_, _)
SkipWhitespace(s, i) ==
    IF i > Len(s) \/ ~IsWhitespace(s[i]) THEN i ELSE SkipWhitespace(s, i + 1)

RECURSIVE SkipNewlines(_, _)
SkipNewlines(s, i) ==
    IF i > Len(s) \/ s[i] # "\n" THEN i ELSE SkipNewlines(s, i + 1)

\* text.replace(/\s+/g, ' ')
RECURSIVE ReplaceWhitespaceRuns(_, _)
ReplaceWhitespaceRuns(s, i) ==
    IF i > Len(s) THEN <<>>
    ELSE IF IsWhitespace(s[i]) THEN <<" ">> \o ReplaceWhitespaceRuns(s, SkipWhitespace(s, i))
         ELSE <<s[i]>> \o ReplaceWhitespaceRuns(s, i + 1)

\* text.replace(/\n+/g, ' ')
RECURSIVE ReplaceNewlineRuns(_, _)
ReplaceNewlineRuns(s, i) ==
    IF i > Len(s) THEN <<>>
    ELSE IF s[i] = "\n" THEN <<" ">> \o ReplaceNewlineRuns(s, SkipNewlines(s, i))
         ELSE <<s[i]>> \o ReplaceNewlineRuns(s, i + 1)

RECURSIVE TrimStart(_)
TrimStart(s) == IF s # <<>> /\ IsWhitespace(Head(s)) THEN TrimStart(Tail(s)) ELSE s

RECURSIVE TrimEnd(_)
TrimEnd(s) ==
    IF s # <<>> /\ IsWhitespace(s[Len(s)]) THEN TrimEnd(SubSeq(s, 1, Len(s) - 1)) ELSE s

Trim(s) == TrimStart(TrimEnd(s))

\* cleanText without its final trim().
cleanTextUntrimmed(t) == ReplaceNewlineRuns(ReplaceWhitespaceRuns(t, 1), 1)

\* chunker.js cleanText (TextCleanerService.cleanText and aiClient.ts cleanText
\* are the same three calls).
cleanText(t) == Trim(ReplaceNewlineRuns(ReplaceWhitespaceRuns(t, 1), 1))

\* text.split(/\s+/): the pieces between the whitespace runs; a run at the start
\* or the end leaves an empty piece there, and the empty string gives [""].
RECURSIVE SplitFrom(_, _, _)
SplitFrom(s, i, piece) ==
    IF i > Len(s) THEN <<piece>>
    ELSE IF IsWhitespace(s[i]) THEN <<piece>> \o SplitFrom(s, SkipWhitespace(s, i), <<>>)
         ELSE SplitFrom(s, i + 1, Append(piece, s[i]))

splitIntoWords(t) == SplitFrom(t, 1, <<>>)

\* array.join(' ')
RECURSIVE Join(_)
Join(pieces) ==
    IF pieces = <<>> THEN <<>>
    ELSE IF Len(pieces) = 1 THEN pieces[1]
         ELSE pieces[1] \o <<" ">> \o Join(Tail(pieces))

-----------------------------------------------------------------------------
(* The chunkers. *)

DefaultChunkSize == 500

DefaultOverlap == 50

DefaultCharChunkSize == 1000

DefaultCharOverlap == 200

ChunkerServiceChunkSize == 200

AiClientChunkSize == 1500

MinWordCount == 5

\* The filter keeping the chunks of 5 words too (wordCount >= 5).
validateChunksFromFive(cs) ==
    SelectSeq(cs, LAMBDA chunk : Len(splitIntoWords(chunk)) >= MinWordCount)

\* chunker.js validateChunks: keep the chunks of more than 5 words.
validateChunks(cs) == SelectSeq(cs, LAMBDA chunk : Len(splitIntoWords(chunk)) > MinWordCount)

\* words.slice(start, end - 1): the window's last word left out.
OverlappingChunkAtShort(ws, st, size) == Join(Slice(ws, st, Min(st + size, Len(ws)) - 1))

\* One pass of the while loop of createOverlappingChunks (lines 35-42): the
\* chunk it pushes.
OverlappingChunkAt(ws, st, size) == Join(Slice(ws, st, Min(st + size, Len(ws))))

\* One pass of the for loop of chunkText: words.slice(i, i + chunkSize).join(' ').
FixedChunkAt(ws, i, size) == Join(Slice(ws, i, i + size))

\* One pass of the while loop of splitTextIntoChunks:
\* cleanedText.slice(startIndex, Math.min(startIndex + chunkSize, length)).
CharChunkAt(cleaned, st, size) == Slice(cleaned, st, Min(st + size, Len(cleaned)))

-----------------------------------------------------------------------------
(* The chunking inputs. *)

Letters == <<"a", "b", "c", "d", "e", "f", "g", "h", "i", "j">>

Separators == { <<" ">>, <<"\n">>, <<" ", " ">> }

Pads == { <<>>, <<" ">> }

\* n one-letter words a, b, c, ... with sep between them.
RECURSIVE WordsText(_, _)
WordsText(n, sep) ==
    IF n = 0 THEN <<>>
    ELSE IF n = 1 THEN <<Letters[1]>>
         ELSE WordsText(n - 1, sep) \o sep \o <<Letters[n]>>

ScenarioText == <<"a", "l", "p", "h", "a", " ", "b", "e", "t", "a", " ", "g", "a", "m", "m", "a", " ", "d", "e", "l", "t", "a", " ", "e", "p", "s", "i", "l", "o", "n">>

\* Texts long enough for chunks that pass validateChunks.
LongTexts == { WordsText(n, <<" ">>) : n \in (MinWordCount + 1)..(MinWordCount + 3) }

Texts ==
    { lead \o WordsText(n, sep) \o trail :
        n \in 0..MaxWords, sep \in Separators, lead \in Pads, trail \in Pads }
    \cup {ScenarioText} \cup LongTexts

Chunkers == {"overlapping", "fixed200", "fixed1500", "character"}

\* (chunkSize, overlap): the small configurations, among them overlap >= chunkSize,
\* and the chunker's defaults.
Configs(c) ==
    CASE c = "overlapping" ->
           ((1..MaxChunkSize) \X (0..MaxChunkSize))
               \cup {<<DefaultChunkSize, DefaultOverlap>>}
               \cup {<<MinWordCount + 1, 0>>, <<MinWordCount + 1, MinWordCount>>}
      [] c = "character" ->
           ((1..MaxChunkSize) \X (0..MaxChunkSize))
               \cup {<<DefaultCharChunkSize, DefaultCharOverlap>>}
      [] c = "fixed200" -> {<<ChunkerServiceChunkSize, 0>>}
      [] OTHER -> {<<AiClientChunkSize, 0>>}

ValidConfig == 0 <= overlap /\ overlap < chunkSize

-----------------------------------------------------------------------------
(* The chunking calls. *)

RankIdle ==
    /\ impl = "none"
    /\ queryEmbedding = EmbedFail
    /\ embeddingStore = <<>>
    /\ topK = 0
    /\ rankPc = "idle"
    /\ rankResult = NoResult

ChunkInit ==
    /\ chunker \in Chunkers
    /\ text \in Texts
    /\ \E cfg \in Configs(chunker) : chunkSize = cfg[1] /\ overlap = cfg[2]
    /\ words = <<>>
    /\ start = 0
    /\ chunks = <<>>
    /\ chunkPc = "call"
    /\ chunkResult = <<>>
    /\ RankIdle
    /\ EmbedIdle
    /\ QueryIdle
    /\ UploadIdle
    /\ CleanIdle
    /\ ModelIdle
    /\ ServiceIdle

\* The loop is followed while it has pushed fewer chunks than this.
LoopCap == Len(words) + MaxExtraChunks

\* chunkPdfContent line 72: readPdf throws and chunkPdfContent rethrows.
ReadPdfFails ==
    /\ chunkPc = "call"
    /\ chunker = "overlapping"
    /\ chunkPc' = "threw"
    /\ UNCHANGED <<chunker, text, chunkSize, overlap, words, start, chunks, chunkResult>>
    /\ UNCHANGED nonChunkVars

\* chunkPdfContent lines 72-81, up to the loop of createOverlappingChunks.
ChunkPdfContent ==
    /\ chunkPc = "call"
    /\ chunker = "overlapping"
    /\ words' = splitIntoWords(cleanText(text))
    /\ start' = 0
    /\ chunks' = <<>>
    /\ chunkPc' = "loop"
    /\ UNCHANGED <<chunker, text, chunkSize, overlap, chunkResult>>
    /\ UNCHANGED nonChunkVars

\* The loop with its break taken as soon as the window reaches the last word
\* (if (end >= words.length) break).
CreateOverlappingChunksStepBreakAtEnd ==
    /\ chunkPc = "loop"
    /\ chunker = "overlapping"
    /\ Len(chunks) < LoopCap
    /\ IF start < Len(words)
       THEN /\ chunks' = Append(chunks, OverlappingChunkAt(words, start, chunkSize))
            /\ start' = start + chunkSize - overlap
            /\ chunkPc' = IF Min(start + chunkSize, Len(words)) >= Len(words)
                          THEN "filter" ELSE "loop"
       ELSE /\ chunkPc' = "filter"
            /\ UNCHANGED <<start, chunks>>
    /\ UNCHANGED <<chunker, text, chunkSize, overlap, words, chunkResult>>
    /\ UNCHANGED nonChunkVars

\* createOverlappingChunks: one test of the while condition and, when it holds,
\* one pass of the body with its break.
CreateOverlappingChunksStep ==
    /\ chunkPc = "loop"
    /\ chunker = "overlapping"
    /\ Len(chunks) < LoopCap
    /\ IF start < Len(words)
       THEN /\ chunks' = Append(chunks, OverlappingChunkAt(words, start, chunkSize))
            /\ start' = start + chunkSize - overlap
            /\ chunkPc' = IF start' >= Len(words) THEN "filter" ELSE "loop"
       ELSE /\ chunkPc' = "filter"
            /\ UNCHANGED <<start, chunks>>
    /\ UNCHANGED <<chunker, text, chunkSize, overlap, words, chunkResult>>
    /\ UNCHANGED nonChunkVars

\* chunkPdfContent lines 84-90: validateChunks and return.
ChunkPdfContentReturn ==
    /\ chunkPc = "filter"
    /\ chunker = "overlapping"
    /\ chunkResult' = validateChunks(chunks)
    /\ chunkPc' = "returned"
    /\ UNCHANGED <<chunker, text, chunkSize, overlap, words, start, chunks>>
    /\ UNCHANGED nonChunkVars

\* ChunkerService.chunkText / aiClient.ts chunkText, up to the for loop.
ChunkText ==
    /\ chunkPc = "call"
    /\ chunker \in {"fixed200", "fixed1500"}
    /\ words' = splitIntoWords(text)
    /\ start' = 0
    /\ chunks' = <<>>
    /\ chunkPc' = "loop"
    /\ UNCHANGED <<chunker, text, chunkSize, overlap, chunkResult>>
    /\ UNCHANGED nonChunkVars

\* chunkText: one test of i < words.length, then one pass of the body, or the return.
ChunkTextStep ==
    /\ chunkPc = "loop"
    /\ chunker \in {"fixed200", "fixed1500"}
    /\ IF start < Len(words)
       THEN /\ chunks' = Append(chunks, FixedChunkAt(words, start, chunkSize))
            /\ start' = start + chunkSize
            /\ UNCHANGED <<chunkPc, chunkResult>>
       ELSE /\ chunkResult' = chunks
            /\ chunkPc' = "returned"
            /\ UNCHANGED <<start, chunks>>
    /\ UNCHANGED <<chunker, text, chunkSize, overlap, words>>
    /\ UNCHANGED nonChunkVars

\* pdfProcessor.ts splitTextIntoChunks, up to the while loop; words holds the
\* characters of cleanedText.
SplitTextIntoChunks ==
    /\ chunkPc = "call"
    /\ chunker = "character"
    /\ words' = Trim(ReplaceWhitespaceRuns(text, 1))
    /\ start' = 0
    /\ chunks' = <<>>
    /\ chunkPc' = "loop"
    /\ UNCHANGED <<chunker, text, chunkSize, overlap, chunkResult>>
    /\ UNCHANGED nonChunkVars

\* splitTextIntoChunks: one test of the while condition, then one pass of the
\* body, or the return.
SplitTextIntoChunksStep ==
    /\ chunkPc = "loop"
    /\ chunker = "character"
    /\ Len(chunks) < LoopCap
    /\ IF start < Len(words)
       THEN /\ chunks' = Append(chunks, CharChunkAt(words, start, chunkSize))
            /\ start' = start + chunkSize - overlap
            /\ UNCHANGED <<chunkPc, chunkResult>>
       ELSE /\ chunkResult' = chunks
            /\ chunkPc' = "returned"
            /\ UNCHANGED <<start, chunks>>
    /\ UNCHANGED <<chunker, text, chunkSize, overlap, words>>
    /\ UNCHANGED nonChunkVars

-----------------------------------------------------------------------------
(* The embedding gateway: embeddings.js (the local model) and                *)
(* api/src/lib/ragService.ts with aiClient.ts (the remote provider).         *)
(*                                                                         *)
(* An embedding is described by what the code inspects of it: its length,   *)
(* and whether one of its components is NaN, infinite or not a number;      *)
(* encodes names the text the provider computed it for.                     *)

EMBEDDING_DIMENSIONS == 384

MAX_BATCH_SIZE == 32

Vector(len, defect, t) == [length |-> len, defect |-> defect, encodes |-> t]

NoVector == Vector(0, "none", <<>>)

ProviderError == [failed |-> TRUE, vector |-> NoVector]

\* What the local model can answer: a Float32Array holds numbers only.
LocalKinds == {"ok", "error", "short", "NaN", "Infinity"}

\* What the remote provider can answer: JSON holds no NaN, but it can hold a
\* component that is not a number.
RemoteKinds == {"ok", "error", "short", "nonNumber"}

\* The provider's answer for text t when it behaves as kind.
Reply(t, kind) ==
    IF kind = "error" THEN ProviderError
    ELSE [failed |-> FALSE,
          vector |-> Vector(IF kind = "short" THEN EMBEDDING_DIMENSIONS - 1
                                              ELSE EMBEDDING_DIMENSIONS,
                            IF kind \in {"ok", "short"} THEN "none" ELSE kind,
                            t)]

\* embeddings.js generateSingleEmbedding, from the model's answer on: it throws
\* when the model threw or the length is not 384, and checks nothing else.
generateSingleEmbedding(reply) ==
    IF reply.failed \/ reply.vector.length # EMBEDDING_DIMENSIONS
    THEN ProviderError
    ELSE reply

\* aiClient.ts generateEmbedding, from the response on: data.data[0].embedding
\* is returned as it came.
generateEmbedding(reply) == reply

\* validateEmbeddings: TRUE when it returns true, FALSE when it throws.
validateEmbeddings(embs) ==
    /\ Len(embs) # 0
    /\ \A i \in 1..Len(embs) :
          /\ embs[i].length = EMBEDDING_DIMENSIONS
          /\ embs[i].defect = "none"

\* createEmbeddingStore(chunks, embeddings) with the fields id, text, embedding
\* and wordCount of its entries.
createEmbeddingStoreEntries(cs, embs) ==
    [i \in 1..Len(cs) |->
        [id |-> i - 1, text |-> cs[i], embedding |-> embs[i],
         wordCount |-> Len(splitIntoWords(cs[i]))]]

\* chunks.slice(i, i + MAX_BATCH_SIZE - 1): a batch one item short.
BatchOfShort(cs, i) == Slice(cs, i, i + MAX_BATCH_SIZE - 1)

\* chunks.slice(i, i + MAX_BATCH_SIZE)
BatchOf(cs, i) == Slice(cs, i, i + MAX_BATCH_SIZE)

NoEmbedResult == [status |-> "none", from |-> "", items |-> <<>>]

EmbedError(where) == [status |-> "error", from |-> where, items |-> <<>>]

EmbedReturned(items) == [status |-> "ok", from |-> "", items |-> items]

\* generateEmbeddingsForChunks lines 161-167: the call of generateBatchEmbeddings
\* and the start of its for loop.
GenerateEmbeddingsForChunks ==
    /\ embedPc = "call"
    /\ embedder = "local"
    /\ collected' = <<>>
    /\ embedIndex' = 0
    /\ embedPc' = "batch"
    /\ UNCHANGED <<embedder, provider, embedChunks, batchEmbeddings, sent, embedResult>>
    /\ UNCHANGED nonEmbedVars

\* generateBatchEmbeddings: one test of i < chunks.length; the batch is sliced
\* or the function returns its embeddings array.
GenerateBatchEmbeddingsLoop ==
    /\ embedPc = "batch"
    /\ batchEmbeddings' = <<>>
    /\ embedPc' = IF embedIndex < Len(embedChunks) THEN "item" ELSE "validate"
    /\ UNCHANGED <<embedder, provider, embedChunks, embedIndex, collected, sent, embedResult>>
    /\ UNCHANGED nonEmbedVars

\* The batch loop returning what it has when an item fails (partial result).
GenerateBatchEmbeddingsItemPartial ==
    /\ embedPc = "item"
    /\ LET batch == BatchOf(embedChunks, embedIndex)
           chunk == batch[Len(batchEmbeddings) + 1]
           embedding == generateSingleEmbedding(Reply(chunk, provider[chunk]))
       IN  /\ sent' = Append(sent, chunk)
           /\ IF embedding.failed
              THEN /\ embedResult' = EmbedReturned(collected \o batchEmbeddings)
                   /\ embedPc' = "returned"
                   /\ UNCHANGED <<batchEmbeddings, collected, embedIndex>>
              ELSE /\ batchEmbeddings' = Append(batchEmbeddings, embedding.vector)
                   /\ IF Len(batchEmbeddings') = Len(batch)
                      THEN /\ collected' = collected \o batchEmbeddings'
                           /\ embedIndex' = embedIndex + MAX_BATCH_SIZE
                           /\ embedPc' = "batch"
                      ELSE UNCHANGED <<collected, embedIndex, embedPc>>
                   /\ UNCHANGED embedResult
    /\ UNCHANGED <<embedder, provider, embedChunks>>
    /\ UNCHANGED nonEmbedVars

\* The batch sent to the model all at once, as Promise.all over the batch would.
GenerateBatchEmbeddingsItemFanOut ==
    /\ embedPc = "item"
    /\ LET batch == BatchOf(embedChunks, embedIndex)
           replies == [j \in 1..Len(batch) |->
                          generateSingleEmbedding(Reply(batch[j], provider[batch[j]]))]
       IN  /\ sent' = sent \o batch
           /\ IF \E j \in 1..Len(batch) : replies[j].failed
              THEN /\ embedResult' = EmbedError("generateSingleEmbedding")
                   /\ embedPc' = "threw"
                   /\ UNCHANGED <<batchEmbeddings, collected, embedIndex>>
              ELSE /\ batchEmbeddings' = [j \in 1..Len(batch) |-> replies[j].vector]
                   /\ collected' = collected \o batchEmbeddings'
                   /\ embedIndex' = embedIndex + MAX_BATCH_SIZE
                   /\ embedPc' = "batch"
                   /\ UNCHANGED embedResult
    /\ UNCHANGED <<embedder, provider, embedChunks>>
    /\ UNCHANGED nonEmbedVars

\* generateBatchEmbeddings lines 80-91: one item of the batch is sent to the
\* model; after the last item the batch is pushed and i advances.
GenerateBatchEmbeddingsItem ==
    /\ embedPc = "item"
    /\ LET batch == BatchOf(embedChunks, embedIndex)
           chunk == batch[Len(batchEmbeddings) + 1]
           embedding == generateSingleEmbedding(Reply(chunk, provider[chunk]))
       IN  /\ sent' = Append(sent, chunk)
           /\ IF embedding.failed
              THEN /\ embedResult' = EmbedError("generateSingleEmbedding")
                   /\ embedPc' = "threw"
                   /\ UNCHANGED <<batchEmbeddings, collected, embedIndex>>
              ELSE /\ batchEmbeddings' = Append(batchEmbeddings, embedding.vector)
                   /\ IF Len(batchEmbeddings') = Len(batch)
                      THEN /\ collected' = collected \o batchEmbeddings'
                           /\ embedIndex' = embedIndex + MAX_BATCH_SIZE
                           /\ embedPc' = "batch"
                      ELSE UNCHANGED <<collected, embedIndex, embedPc>>
                   /\ UNCHANGED embedResult
    /\ UNCHANGED <<embedder, provider, embedChunks>>
    /\ UNCHANGED nonEmbedVars

\* generateEmbeddingsForChunks lines 170-179: validateEmbeddings,
\* createEmbeddingStore and the return.
ValidateAndCreateStore ==
    /\ embedPc = "validate"
    /\ IF ~validateEmbeddings(collected)
       THEN /\ embedResult' = EmbedError("validateEmbeddings")
            /\ embedPc' = "threw"
       ELSE IF Len(embedChunks) # Len(collected)
            THEN /\ embedResult' = EmbedError("createEmbeddingStore")
                 /\ embedPc' = "threw"
            ELSE /\ embedResult' = EmbedReturned(createEmbeddingStoreEntries(embedChunks, collected))
                 /\ embedPc' = "returned"
    /\ UNCHANGED <<embedder, provider, embedChunks, embedIndex, batchEmbeddings,
                   collected, sent>>
    /\ UNCHANGED nonEmbedVars

\* generateSingleEmbedding called on its own, as ragQuery calls it for the query.
GenerateSingleEmbedding ==
    /\ embedPc = "call"
    /\ embedder = "single"
    /\ LET queryText == embedChunks[1]
           embedding == generateSingleEmbedding(Reply(queryText, provider[queryText]))
       IN  /\ sent' = Append(sent, queryText)
           /\ IF embedding.failed
              THEN /\ embedResult' = EmbedError("generateSingleEmbedding")
                   /\ embedPc' = "threw"
              ELSE /\ embedResult' = EmbedReturned(<<[text |-> queryText,
                                                       embedding |-> embedding.vector]>>)
                   /\ embedPc' = "returned"
    /\ UNCHANGED <<embedder, provider, embedChunks, embedIndex, batchEmbeddings, collected>>
    /\ UNCHANGED nonEmbedVars

\* ragService.ts embedDocumentChunks: one pass of the for-of loop, or the return
\* of embeddedChunks; collected holds embeddedChunks.
EmbedDocumentChunksStep ==
    /\ embedPc = "call"
    /\ embedder = "remote"
    /\ IF Len(collected) < Len(embedChunks)
       THEN LET chunk == embedChunks[Len(collected) + 1]
                embedding == generateEmbedding(Reply(chunk, provider[chunk]))
            IN  /\ sent' = Append(sent, chunk)
                /\ IF embedding.failed
                   THEN /\ embedResult' = EmbedError("generateEmbedding")
                        /\ embedPc' = "threw"
                        /\ UNCHANGED collected
                   ELSE /\ collected' = Append(collected,
                                               [text |-> chunk, embedding |-> embedding.vector])
                        /\ UNCHANGED <<embedResult, embedPc>>
       ELSE /\ embedResult' = EmbedReturned(collected)
            /\ embedPc' = "returned"
            /\ UNCHANGED <<collected, sent>>
    /\ UNCHANGED <<embedder, provider, embedChunks, embedIndex, batchEmbeddings>>
    /\ UNCHANGED nonEmbedVars

\* index.js main, line 33: the chunks chunkPdfContent returned are handed to
\* generateEmbeddingsForChunks.
MainGenerateEmbeddingsForChunks ==
    /\ chunkPc = "returned"
    /\ chunker = "overlapping"
    /\ embedPc = "idle"
    /\ embedder' = "local"
    /\ embedChunks' = chunkResult
    /\ provider' \in [{ chunkResult[i] : i \in DOMAIN chunkResult } -> LocalKinds]
    /\ embedPc' = "call"
    /\ UNCHANGED <<embedIndex, batchEmbeddings, collected, sent, embedResult>>
    /\ UNCHANGED nonEmbedVars

ChunkNext ==
    \/ ReadPdfFails
    \/ ChunkPdfContent
    \/ CreateOverlappingChunksStep
    \/ ChunkPdfContentReturn
    \/ ChunkText
    \/ ChunkTextStep
    \/ SplitTextIntoChunks
    \/ SplitTextIntoChunksStep
    \/ MainGenerateEmbeddingsForChunks
    \/ GenerateEmbeddingsForChunks
    \/ GenerateBatchEmbeddingsLoop
    \/ GenerateBatchEmbeddingsItem
    \/ ValidateAndCreateStore

SpecChunk == ChunkInit /\ [][ChunkNext]_vars

-----------------------------------------------------------------------------
(* Properties of the chunkers, checked under SpecChunk. *)

InvalidConfig == chunker \in {"overlapping", "character"} /\ overlap >= chunkSize

\* The loop of createOverlappingChunks has ended: chunks holds the chunks before
\* filtering.
OverlappingDone == chunker = "overlapping" /\ chunkPc \in {"filter", "returned"}

CeilDiv(n, d) == (n + d - 1) \div d

\* The tokens of the text: the non-empty pieces between its whitespace runs.
Tokens(t) == SelectSeq(splitIntoWords(t), LAMBDA w : w # <<>>)

Drop(n, s) == IF n >= Len(s) THEN <<>> ELSE SubSeq(s, n + 1, Len(s))

\* The windows merged: the first whole, every later one without its first ov tokens.
RECURSIVE MergeLater(_, _)
MergeLater(cs, ov) ==
    IF cs = <<>> THEN <<>>
    ELSE Drop(ov, splitIntoWords(Head(cs))) \o MergeLater(Tail(cs), ov)

MergeWindows(cs, ov) ==
    IF cs = <<>> THEN <<>> ELSE splitIntoWords(Head(cs)) \o MergeLater(Tail(cs), ov)

\* C6: a chunking call with overlap >= chunkSize does not loop forever or
\* produce an unbounded chunk list (it is rejected): it never holds more chunks
\* than its input has units.
C6_InvalidConfigRejected ==
    InvalidConfig => Len(chunks) <= Len(words)

\* C7: for a text of N tokens and a valid configuration the chunker's loop ends
\* with ceil(N / (chunkSize - overlap)) chunks before filtering when N > 0, and
\* with none when N = 0.
C7_ChunkCount ==
    (OverlappingDone /\ ValidConfig) =>
        LET N == Len(Tokens(text))
        IN  Len(chunks) = IF N = 0 THEN 0 ELSE CeilDiv(N, chunkSize - overlap)

\* C8: for a valid configuration the windows before filtering cover the token
\* sequence without a gap: window k holds the at most chunkSize consecutive
\* tokens that start at token (k - 1) * (chunkSize - overlap), every token index
\* lies in some window, and merging the windows, each later one without its
\* first overlap tokens, gives back the token sequence.
C8_ChunkCoverage ==
    (OverlappingDone /\ ValidConfig) =>
        LET stride == chunkSize - overlap
            window(k) == splitIntoWords(chunks[k])
        IN  /\ \A k \in 1..Len(chunks) :
                  /\ Len(window(k)) <= chunkSize
                  /\ Len(window(k)) >= 1
                  /\ (k - 1) * stride + Len(window(k)) <= Len(words)
                  /\ window(k) = SubSeq(words, (k - 1) * stride + 1,
                                        (k - 1) * stride + Len(window(k)))
            /\ \A i \in 1..Len(words) :
                  \E k \in 1..Len(chunks) :
                      (k - 1) * stride < i /\ i <= (k - 1) * stride + Len(window(k))
            /\ MergeWindows(chunks, overlap) = words

\* C8's case: at least three overlapping windows over distinct tokens, the last
\* one cut short by the end of the text.
C8_Witness ==
    /\ OverlappingDone
    /\ ValidConfig
    /\ overlap >= 1
    /\ Len(chunks) >= 3
    /\ Len(splitIntoWords(chunks[Len(chunks)])) < chunkSize
    /\ MergeWindows(chunks, overlap) = words

\* C9: "alpha beta gamma delta epsilon" chunked with chunkSize 2 and overlap 1
\* gives, before filtering, "alpha beta", "beta gamma", "gamma delta",
\* "delta epsilon", in that order.
C9_ScenarioOne ==
    (OverlappingDone /\ text = ScenarioText /\ chunkSize = 2 /\ overlap = 1) =>
        chunks = << <<"a", "l", "p", "h", "a", " ", "b", "e", "t", "a">>,
                    <<"b", "e", "t", "a", " ", "g", "a", "m", "m", "a">>,
                    <<"g", "a", "m", "m", "a", " ", "d", "e", "l", "t", "a">>,
                    <<"d", "e", "l", "t", "a", " ", "e", "p", "s", "i", "l", "o", "n">> >>

\* C9 as amended: the same call gives five chunks, the four above and then
\* "epsilon": the window that starts at the last word is still pushed.
C9_ScenarioOneFiveChunks ==
    (OverlappingDone /\ text = ScenarioText /\ chunkSize = 2 /\ overlap = 1) =>
        chunks = << <<"a", "l", "p", "h", "a", " ", "b", "e", "t", "a">>,
                    <<"b", "e", "t", "a", " ", "g", "a", "m", "m", "a">>,
                    <<"g", "a", "m", "m", "a", " ", "d", "e", "l", "t", "a">>,
                    <<"d", "e", "l", "t", "a", " ", "e", "p", "s", "i", "l", "o", "n">>,
                    <<"e", "p", "s", "i", "l", "o", "n">> >>

\* C9's case: the scenario's call has run its loop to the end.
C9_Witness ==
    /\ OverlappingDone
    /\ text = ScenarioText
    /\ chunkSize = 2
    /\ overlap = 1
    /\ Len(chunks) >= 4

\* C10: every chunker returns the empty chunk sequence for the empty text; no
\* chunk with empty text is returned.
C10_EmptyTextNoChunks ==
    (chunkPc = "returned" /\ text = <<>>) => chunkResult = <<>>

\* C11: what chunkPdfContent returns is exactly the chunks the loop produced
\* that have more than 5 tokens, in their original order; the store built from
\* them gives them the ids 0, 1, .. n-1 in that order, and every entry of it has
\* wordCount > 5.
C11_FilteredChunksContiguousIds ==
    /\ (chunker = "overlapping" /\ chunkPc = "returned") =>
          chunkResult = SelectSeq(chunks, LAMBDA c : Len(Tokens(c)) > 5)
    /\ (chunker = "overlapping" /\ embedPc = "returned") =>
          /\ Len(embedResult.items) = Len(chunkResult)
          /\ \A i \in 1..Len(embedResult.items) :
                /\ embedResult.items[i].id = i - 1
                /\ embedResult.items[i].text = chunkResult[i]
                /\ embedResult.items[i].wordCount > 5

\* A store of several entries was built from a run in which the filter
\* dropped some chunk.
C11_Witness ==
    /\ chunker = "overlapping"
    /\ embedPc = "returned"
    /\ Len(embedResult.items) >= 2
    /\ Len(chunkResult) < Len(chunks)

-----------------------------------------------------------------------------
(* The embedding calls on their own. *)

\* Longest list of texts of which every content is tried.
MaxEmbedChunks == 2

EmbedTexts == { <<"a">>, <<"b">>, <<"c">> }

\* n texts around the batch boundary: a and b in turn in the first batch, c in
\* the later ones.
BoundaryList(n) ==
    [i \in 1..n |-> IF i > MAX_BATCH_SIZE THEN <<"c">>
                    ELSE IF i % 2 = 1 THEN <<"a">> ELSE <<"b">>]

EmbedInputs ==
    UNION { [1..n -> EmbedTexts] : n \in 0..MaxEmbedChunks }
    \cup { BoundaryList(n) : n \in { MAX_BATCH_SIZE - 1, MAX_BATCH_SIZE, MAX_BATCH_SIZE + 1,
                                     2 * MAX_BATCH_SIZE + 1 } }

Embedders == {"local", "remote", "single"}

EmbedInit ==
    /\ embedder \in Embedders
    /\ embedChunks \in (IF embedder = "single" THEN [1..1 -> EmbedTexts] ELSE EmbedInputs)
    /\ provider \in [EmbedTexts -> IF embedder = "remote" THEN RemoteKinds ELSE LocalKinds]
    /\ embedIndex = 0
    /\ batchEmbeddings = <<>>
    /\ collected = <<>>
    /\ sent = <<>>
    /\ embedPc = "call"
    /\ embedResult = NoEmbedResult
    /\ RankIdle
    /\ ChunkIdle
    /\ QueryIdle
    /\ UploadIdle
    /\ CleanIdle
    /\ ModelIdle
    /\ ServiceIdle

EmbedNext ==
    \/ GenerateEmbeddingsForChunks
    \/ GenerateBatchEmbeddingsLoop
    \/ GenerateBatchEmbeddingsItem
    \/ ValidateAndCreateStore
    \/ GenerateSingleEmbedding
    \/ EmbedDocumentChunksStep

SpecEmbed == EmbedInit /\ [][EmbedNext]_vars

-----------------------------------------------------------------------------
(* Properties of the embedding gateway, checked under SpecEmbed. *)

\* The embedding of text t fails: the provider or the gateway's own check throws.
Fails(t) ==
    IF embedder = "remote" THEN generateEmbedding(Reply(t, provider[t])).failed
    ELSE generateSingleEmbedding(Reply(t, provider[t])).failed

EveryCallSucceeds == \A i \in 1..Len(embedChunks) : ~Fails(embedChunks[i])

\* C12: when every provider call succeeds, generateBatchEmbeddings does not
\* throw, and the array it returns has the length of its input and holds at
\* position i the provider's result for the i-th text.
C12_BatchEmbeddingsOneToOne ==
    (embedder = "local" /\ EveryCallSucceeds) =>
        /\ embedResult.from # "generateSingleEmbedding"
        /\ embedPc \in {"validate", "returned", "threw"} =>
              /\ Len(collected) = Len(embedChunks)
              /\ \A i \in 1..Len(collected) :
                    collected[i] = Reply(embedChunks[i], provider[embedChunks[i]]).vector

\* generateBatchEmbeddings has returned for an input of one full batch and one
\* more text.
C12_Witness ==
    /\ embedder = "local"
    /\ EveryCallSucceeds
    /\ embedPc = "validate"
    /\ Len(embedChunks) = MAX_BATCH_SIZE + 1

FailedAt == { i \in 1..Len(sent) : Fails(sent[i]) }

\* C13: from the moment the embedding of an item has failed, that item is the
\* last one ever sent to the provider, and the call has ended in an error that
\* carries no embeddings.
C13_FailFast ==
    (embedder \in {"local", "remote"} /\ FailedAt # {}) =>
        /\ FailedAt = {Len(sent)}
        /\ embedPc = "threw"
        /\ embedResult.status = "error"
        /\ embedResult.items = <<>>

\* The first item of the second batch failed, with a whole batch computed and a
\* later batch still to come.
C13_Witness ==
    /\ embedder = "local"
    /\ FailedAt = {MAX_BATCH_SIZE + 1}
    /\ Len(collected) = MAX_BATCH_SIZE
    /\ Len(embedChunks) > 2 * MAX_BATCH_SIZE

\* C27: during one ingestion the texts sent to the provider so far are the
\* first texts of the input in input order; every call but the last one sent
\* has succeeded, and when the last one sent has failed the ingestion has
\* ended, so that no call is issued while another has not returned.  In
\* generateBatchEmbeddings the batch being processed starts at a multiple of
\* 32, right after the embeddings collected so far, and holds at most 32 items;
\* the start of the batch never decreases.
C27_SequentialProviderCalls ==
    /\ [](embedder \in {"local", "remote"} =>
            /\ Len(sent) <= Len(embedChunks)
            /\ \A i \in 1..Len(sent) : sent[i] = embedChunks[i]
            /\ \A i \in 1..(Len(sent) - 1) : ~Fails(sent[i])
            /\ (sent # <<>> /\ Fails(sent[Len(sent)])) => embedPc = "threw"
            /\ (embedder = "local" /\ embedPc = "item") =>
                  /\ embedIndex % MAX_BATCH_SIZE = 0
                  /\ embedIndex = Len(collected)
                  /\ Len(BatchOf(embedChunks, embedIndex)) \in 1..MAX_BATCH_SIZE
                  /\ Len(sent) = embedIndex + Len(batchEmbeddings))
    /\ [][/\ Len(sent') <= Len(sent) + 1
          /\ embedIndex' >= embedIndex]_vars

\* The first item of the third batch is about to be sent.
C27_Witness ==
    /\ embedder = "local"
    /\ embedPc = "item"
    /\ embedIndex = 2 * MAX_BATCH_SIZE
    /\ Len(sent) = 2 * MAX_BATCH_SIZE
    /\ batchEmbeddings = <<>>

ValidVector(v) == v.length = EMBEDDING_DIMENSIONS /\ v.defect = "none"

\* C14: every embedding a gateway call returns, for the chunks of a document or
\* for a query, has the expected length and only finite numeric components.
C14_EmbeddingsValidated ==
    embedPc = "returned" =>
        \A i \in 1..Len(embedResult.items) : ValidVector(embedResult.items[i].embedding)

\* C15 (checked under SpecChunk): for a document whose text holds no token, the
\* ingestion of index.js ends with generateEmbeddingsForChunks returning a store
\* of zero entries, built from zero chunks, and does not end in an error.
C15_EmptyDocumentIngests ==
    (chunker = "overlapping" /\ Tokens(text) = <<>> /\ embedPc \in {"returned", "threw"}) =>
        /\ chunkResult = <<>>
        /\ embedPc = "returned"
        /\ embedResult.items = <<>>

-----------------------------------------------------------------------------
(* The query operations: ragQuery of retrieval.js, generateRAGAnswer of      *)
(* ragService.ts and the query half of DocumentController.processDocument.   *)
(* Each embeds the query, ranks with the ranker of its implementation and    *)
(* asks the completion provider.  A context block is kept as its parts, a    *)
(* chunk's text as the chunk's id.                                           *)

\* topK = 3: the default of ragQuery and of ragService.ts findRelevantChunks, and
\* the argument processDocument passes.
DefaultTopK == 3

\* Largest store a query is run against.
MaxQueryStore == 2

QueryStores ==
    { createEmbeddingStore(e) : e \in UNION { [1..n -> TestVectors] : n \in 0..MaxQueryStore } }

\* The completion provider fails, or returns one of two answer texts.
Completions == {"error", "answer A", "answer B"}

ErrorResponse == [status |-> "error", answer |-> "", sources |-> <<>>]

\* retrieval.js combineChunksIntoContext
combineChunksIntoContext(retrievedChunks) ==
    IF Len(retrievedChunks) = 0
    THEN [placeholder |-> TRUE, parts |-> <<>>]
    ELSE [placeholder |-> FALSE,
          parts |-> [idx \in 1..Len(retrievedChunks) |->
                        [source |-> idx,
                         similarity |-> retrievedChunks[idx].similarity,
                         text |-> retrievedChunks[idx].id]]]

\* ragService.ts generateRAGAnswer lines 74-76: the [Source i]: text parts joined;
\* the empty string when there is no chunk.
RagContext(relevantChunks) ==
    [placeholder |-> FALSE,
     parts |-> [i \in 1..Len(relevantChunks) |->
                   [source |-> i, text |-> relevantChunks[i].id]]]

\* DocumentController line 42: the texts joined, without labels.
ControllerContext(relevantChunks) ==
    [placeholder |-> FALSE,
     parts |-> [i \in 1..Len(relevantChunks) |-> [text |-> relevantChunks[i].id]]]

\* retrieval.js queryLLM lines 153-158
RetrievalSources(retrievedChunks) ==
    [idx \in 1..Len(retrievedChunks) |->
        [id |-> retrievedChunks[idx].id,
         similarity |-> retrievedChunks[idx].similarity,
         reference |-> idx]]

\* ragService.ts generateRAGAnswer lines 96-99: source and chunkIndex, which
\* name the chunk; no score.
RagSources(relevantChunks) ==
    [i \in 1..Len(relevantChunks) |-> [id |-> relevantChunks[i].id]]

QueryInit ==
    /\ impl \in Impls
    /\ queryEmbedding \in QueryVectors \cup {EmbedFail}
    /\ embeddingStore \in QueryStores
    /\ topK \in (IF impl = "retrieval" THEN TopKInputs ELSE {2 * DefaultTopK})
    /\ rankPc = "idle"
    /\ rankResult = NoResult
    /\ queryPc = "call"
    /\ completion \in Completions
    /\ llmCalls = <<>>
    /\ response = NoResponse
    /\ ChunkIdle
    /\ EmbedIdle
    /\ UploadIdle
    /\ CleanIdle
    /\ ModelIdle
    /\ ServiceIdle

\* ragQuery with a failed query embedding going on to the search.
RagQueryIgnoringFailure ==
    /\ queryPc = "call"
    /\ impl = "retrieval"
    /\ rankPc' = "call"
    /\ queryPc' = "search"
    /\ UNCHANGED <<impl, queryEmbedding, embeddingStore, topK, rankResult>>
    /\ UNCHANGED <<completion, llmCalls, response>>
    /\ UNCHANGED <<chunkVars, embedVars, uploadVars, cleanVars, modelVars,
                 serviceVars>>

\* ragQuery lines 185-198: the query is embedded; a failure is rethrown.
RagQuery ==
    /\ queryPc = "call"
    /\ impl = "retrieval"
    /\ IF queryEmbedding.failed
       THEN /\ response' = ErrorResponse
            /\ queryPc' = "threw"
            /\ UNCHANGED rankPc
       ELSE /\ rankPc' = "call"
            /\ queryPc' = "search"
            /\ UNCHANGED response
    /\ UNCHANGED <<impl, queryEmbedding, embeddingStore, topK, rankResult>>
    /\ UNCHANGED <<completion, llmCalls>>
    /\ UNCHANGED <<chunkVars, embedVars, uploadVars, cleanVars, modelVars,
                 serviceVars>>

\* generateRAGAnswer line 71 and processDocument line 39: findRelevantChunks is
\* called; it embeds the query itself.
CallFindRelevantChunks ==
    /\ queryPc = "call"
    /\ impl \in {"semantic", "ragts"}
    /\ rankPc' = "call"
    /\ queryPc' = "search"
    /\ UNCHANGED <<impl, queryEmbedding, embeddingStore, topK, rankResult>>
    /\ UNCHANGED <<completion, llmCalls, response>>
    /\ UNCHANGED <<chunkVars, embedVars, uploadVars, cleanVars, modelVars,
                 serviceVars>>

\* The rest of a query operation once the ranker has returned: the completion
\* provider is called once with the context; when the call fails the operation
\* ends in onFailure.
Synthesize(context, sources, onFailure) ==
    /\ llmCalls' = Append(llmCalls, context)
    /\ IF completion = "error"
       THEN /\ response' = onFailure
            /\ queryPc' = IF onFailure.status = "error" THEN "threw" ELSE "returned"
       ELSE /\ response' = [status |-> "ok", answer |-> completion, sources |-> sources]
            /\ queryPc' = "returned"

\* The ranker threw: the operation rethrows without calling the provider.
QueryThrows ==
    /\ response' = ErrorResponse
    /\ queryPc' = "threw"
    /\ UNCHANGED llmCalls

\* ragQuery lines 200-241 with queryLLM: every error is rethrown.
RagQueryAnswer ==
    /\ queryPc = "search"
    /\ rankPc = "done"
    /\ impl = "retrieval"
    /\ IF rankResult.status = "error"
       THEN QueryThrows
       ELSE Synthesize(combineChunksIntoContext(rankResult.items),
                       RetrievalSources(rankResult.items), ErrorResponse)
    /\ UNCHANGED <<rankVars, completion, chunkVars, embedVars, uploadVars, cleanVars, modelVars,
                 serviceVars>>

\* generateRAGAnswer lines 73-105 with generateChatCompletion.
GenerateRAGAnswer ==
    /\ queryPc = "search"
    /\ rankPc = "done"
    /\ impl = "ragts"
    /\ IF rankResult.status = "error"
       THEN QueryThrows
       ELSE Synthesize(RagContext(rankResult.items), RagSources(rankResult.items),
                       ErrorResponse)
    /\ UNCHANGED <<rankVars, completion, chunkVars, embedVars, uploadVars, cleanVars, modelVars,
                 serviceVars>>

\* processDocument lines 41-68: an error of queryLLM is caught and its message
\* becomes the response of a request answered with res.json.
ProcessDocument ==
    /\ queryPc = "search"
    /\ rankPc = "done"
    /\ impl = "semantic"
    /\ IF rankResult.status = "error"
       THEN QueryThrows
       ELSE Synthesize(ControllerContext(rankResult.items), <<>>,
                       [status |-> "ok", answer |-> "Error processing query",
                        sources |-> <<>>])
    /\ UNCHANGED <<rankVars, completion, chunkVars, embedVars, uploadVars, cleanVars, modelVars,
                 serviceVars>>

QueryNext ==
    \/ RagQuery
    \/ CallFindRelevantChunks
    \/ PerformSimilaritySearch
    \/ SemanticFindRelevantChunks
    \/ RagFindRelevantChunks
    \/ RagQueryAnswer
    \/ GenerateRAGAnswer
    \/ ProcessDocument

SpecQuery == QueryInit /\ [][QueryNext]_vars

-----------------------------------------------------------------------------
(* Properties of the query operations, checked under SpecQuery. *)

QueryEnded == queryPc \in {"returned", "threw"}

\* C16: the completion provider is never called twice for a query, and a query
\* whose embedding succeeded and whose ranking returned a list ends with
\* exactly one call; when that list is empty the context block of the call is
\* the "no relevant context" placeholder.
C16_CompletionCalledOnce ==
    /\ Len(llmCalls) <= 1
    /\ (~queryEmbedding.failed /\ rankResult.status = "ok" /\ QueryEnded) =>
          /\ Len(llmCalls) = 1
          /\ rankResult.items = <<>> => llmCalls[1].placeholder

\* C17: an answer's sources list has one entry per retrieved item, in ranked
\* order, each with the id and the score of the item at that rank, whatever the
\* answer text; the part labelled [Source i] of the context block is the text
\* of the chunk of the i-th entry.
C17_SourcesMatchRetrieved ==
    (impl \in {"retrieval", "ragts"} /\ response.status = "ok") =>
        /\ Len(response.sources) = Len(rankResult.items)
        /\ \A i \in 1..Len(response.sources) :
              /\ response.sources[i].id = rankResult.items[i].id
              /\ "similarity" \in DOMAIN response.sources[i]
              /\ response.sources[i].similarity = rankResult.items[i].similarity
              /\ llmCalls[1].parts[i].source = i
              /\ llmCalls[1].parts[i].text = response.sources[i].id

\* C19: when the embedding of the query fails, the ranker returns no result,
\* the completion provider is not called, and the operation returns no answer:
\* it ends in an error.
C19_FailedQueryEmbeddingAborts ==
    queryEmbedding.failed =>
        /\ rankResult.status # "ok"
        /\ llmCalls = <<>>
        /\ response.status # "ok"
        /\ queryPc # "returned"
        /\ QueryEnded => response.status = "error"

\* A query whose embedding failed has ended, against a store that holds chunks.
C19_Witness ==
    /\ queryEmbedding.failed
    /\ queryPc = "threw"
    /\ embeddingStore # <<>>

\* C20: when the call of the completion provider fails, it was the only call,
\* and the operation ends in an error: it reports no success and no answer.
C20_CompletionFailureRaised ==
    (completion = "error" /\ llmCalls # <<>>) =>
        /\ Len(llmCalls) = 1
        /\ queryPc = "threw"
        /\ response.status = "error"
        /\ response.answer = ""

\* C28: no step of a query operation or of its ranker changes the store it
\* was handed: whether the operation returns or throws, the store holds the
\* entries it held at the call, in the same order.
C28_QueriesLeaveStore ==
    [][embeddingStore' = embeddingStore]_vars

\* A query has returned whose ranker put the second entry of the store first.
C28_Witness ==
    /\ Len(embeddingStore) = 2
    /\ queryPc = "returned"
    /\ rankResult.status = "ok"
    /\ Len(rankResult.items) = 2
    /\ rankResult.items[1].index = 1

-----------------------------------------------------------------------------
(* The GraphQL document service: uploadPDF and clearDocuments over the       *)
(* module variable documentStore.  Requests are served on one event loop, so *)
(* clearDocuments can run between two awaits of an upload.                   *)

FileNames == {"x.pdf", "y.pdf"}

\* Most chunks of an uploaded document.
MaxUploadChunks == 2

UploadTexts == { <<"a">>, <<"b">> }

\* How the provider answers during an upload.
UploadKinds == {"ok", "error", "short"}

\* The requests: a file whose text cannot be extracted, or one whose text splits
\* into the chunks texts.
Uploads ==
    { [file |-> f, readable |-> FALSE, texts |-> <<>>] : f \in FileNames }
    \cup { [file |-> f, readable |-> TRUE, texts |-> t] :
             f \in FileNames, t \in UNION { [1..n -> UploadTexts] : n \in 0..MaxUploadChunks } }

\* pdfProcessor.ts processPDF, after extraction and splitting: id, text and
\* metadata of every chunk.
processPDF(u) ==
    [index \in 1..Len(u.texts) |->
        [id |-> <<u.file, index - 1>>, text |-> u.texts[index],
         source |-> u.file, chunkIndex |-> index - 1]]

\* embedDocumentChunks: {...chunk, embedding} for the chunks embedded.
EmbeddedChunks(documentChunks, items) ==
    [i \in 1..Len(items) |->
        [id |-> documentChunks[i].id, text |-> documentChunks[i].text,
         source |-> documentChunks[i].source, chunkIndex |-> documentChunks[i].chunkIndex,
         embedding |-> items[i].embedding]]

UploadInit ==
    /\ RankIdle
    /\ ChunkIdle
    /\ EmbedIdle
    /\ QueryIdle
    /\ UploadIdle
    /\ CleanIdle
    /\ ModelIdle
    /\ ServiceIdle

\* uploadPDF lines 89-107: the request arrives and its file is read.  Every
\* file name is uploaded once.
UploadPDF ==
    /\ uploadPc = "idle"
    /\ \E u \in Uploads :
          /\ u.file \notin uploaded
          /\ upload' = u
          /\ uploaded' = uploaded \cup {u.file}
    /\ provider' \in [UploadTexts -> UploadKinds]
    /\ uploadPc' = "process"
    /\ embedder' = "remote"
    /\ embedChunks' = <<>>
    /\ collected' = <<>>
    /\ sent' = <<>>
    /\ embedPc' = "idle"
    /\ embedResult' = NoEmbedResult
    /\ UNCHANGED <<embedIndex, batchEmbeddings, documentStore, uploadResult>>
    /\ UNCHANGED <<rankVars, chunkVars, queryVars, cleanVars, modelVars,
                 serviceVars>>

\* uploadPDF line 110: processPDF; when the extraction throws, the catch block
\* returns the failure.
ProcessPDF ==
    /\ uploadPc = "process"
    /\ IF upload.readable
       THEN /\ embedChunks' = upload.texts
            /\ embedPc' = "call"
            /\ uploadPc' = "embed"
            /\ UNCHANGED uploadResult
       ELSE /\ uploadResult' = [file |-> upload.file, success |-> FALSE, chunksCount |-> 0]
            /\ uploadPc' = "idle"
            /\ UNCHANGED <<embedChunks, embedPc>>
    /\ UNCHANGED <<embedder, provider, embedIndex, batchEmbeddings, collected, sent,
                   embedResult, documentStore, upload, uploaded>>
    /\ UNCHANGED <<rankVars, chunkVars, queryVars, cleanVars, modelVars,
                 serviceVars>>

\* uploadPDF pushing the chunks embedded before the failure.
UploadPDFReturnPartial ==
    /\ uploadPc = "embed"
    /\ embedPc \in {"returned", "threw"}
    /\ IF embedPc = "returned"
       THEN /\ documentStore' =
                   documentStore \o EmbeddedChunks(processPDF(upload), embedResult.items)
            /\ uploadResult' = [file |-> upload.file, success |-> TRUE,
                                chunksCount |-> Len(processPDF(upload))]
       ELSE /\ documentStore' = documentStore \o EmbeddedChunks(processPDF(upload), collected)
            /\ uploadResult' = [file |-> upload.file, success |-> FALSE, chunksCount |-> 0]
    /\ uploadPc' = "idle"
    /\ embedPc' = "idle"
    /\ UNCHANGED <<embedder, provider, embedChunks, embedIndex, batchEmbeddings, collected,
                   sent, embedResult, upload, uploaded>>
    /\ UNCHANGED <<rankVars, chunkVars, queryVars, cleanVars, modelVars,
                 serviceVars>>

\* uploadPDF lines 113-131: after embedDocumentChunks, the push and the success
\* result, or the catch block's failure result.
UploadPDFReturn ==
    /\ uploadPc = "embed"
    /\ embedPc \in {"returned", "threw"}
    /\ IF embedPc = "returned"
       THEN /\ documentStore' =
                   documentStore \o EmbeddedChunks(processPDF(upload), embedResult.items)
            /\ uploadResult' = [file |-> upload.file, success |-> TRUE,
                                chunksCount |-> Len(processPDF(upload))]
       ELSE /\ uploadResult' = [file |-> upload.file, success |-> FALSE, chunksCount |-> 0]
            /\ UNCHANGED documentStore
    /\ uploadPc' = "idle"
    /\ embedPc' = "idle"
    /\ UNCHANGED <<embedder, provider, embedChunks, embedIndex, batchEmbeddings, collected,
                   sent, embedResult, upload, uploaded>>
    /\ UNCHANGED <<rankVars, chunkVars, queryVars, cleanVars, modelVars,
                 serviceVars>>

\* What clearDocuments means for a request being served: an upload not yet
\* done was started before this clear; a chat still waiting for its query
\* embedding keeps the array it was handed, which documentStore no longer
\* names and so no upload pushes to any more.
AfterClear(req) ==
    IF req.pc = "done" THEN req
    ELSE IF req.op = "upload" THEN [req EXCEPT !.stale = TRUE]
    ELSE IF req.op = "chat" /\ req.view.live
         THEN [req EXCEPT !.view = [live |-> FALSE, entries |-> documentStore,
                                    docs |-> pushed]]
         ELSE req

\* A clear that leaves the first entry of the store in place.
ClearDocumentsKeepingFirst ==
    /\ documentStore' = IF documentStore = <<>> THEN <<>> ELSE <<documentStore[1]>>
    /\ cleared' = TRUE
    /\ pushed' = <<>>
    /\ requests' = [r \in DOMAIN requests |-> AfterClear(requests[r])]
    /\ UNCHANGED <<upload, uploadPc, uploadResult, uploaded>>
    /\ UNCHANGED <<rankVars, chunkVars, embedVars, queryVars, cleanVars, modelVars>>

\* clearDocuments: documentStore = [], a new array.
ClearDocuments ==
    /\ documentStore' = <<>>
    /\ cleared' = TRUE
    /\ pushed' = <<>>
    /\ requests' = [r \in DOMAIN requests |-> AfterClear(requests[r])]
    /\ UNCHANGED <<upload, uploadPc, uploadResult, uploaded>>
    /\ UNCHANGED <<rankVars, chunkVars, embedVars, queryVars, cleanVars, modelVars>>

UploadNext ==
    \/ UploadPDF
    \/ ProcessPDF
    \/ EmbedDocumentChunksStep
    \/ UploadPDFReturn
    \/ ClearDocuments

SpecUpload == UploadInit /\ [][UploadNext]_vars

-----------------------------------------------------------------------------
(* Properties of the document service, checked under SpecUpload. *)

\* The upload in progress is one whose extraction or whose embedding of some
\* chunk fails.
DoomedUpload ==
    /\ uploadPc # "idle"
    /\ \/ ~upload.readable
       \/ \E i \in 1..Len(upload.texts) :
             generateEmbedding(Reply(upload.texts[i], provider[upload.texts[i]])).failed

\* A step of the upload in progress, as opposed to one of clearDocuments.
UploadStep == <<uploadPc, embedPc, collected>>' # <<uploadPc, embedPc, collected>>

EntriesOf(f) == { i \in 1..Len(documentStore) : documentStore[i].source = f }

\* C18: while an upload whose extraction or embedding fails is in progress,
\* documentStore holds no chunk of its file; no step of that upload changes
\* documentStore; and the step that ends it returns success false with
\* chunksCount 0.
C18_FailedUploadLeavesStore ==
    /\ [](DoomedUpload => EntriesOf(upload.file) = {})
    /\ [][(DoomedUpload /\ UploadStep) =>
            /\ documentStore' = documentStore
            /\ uploadPc' = "idle" =>
                  uploadResult' = [file |-> upload.file, success |-> FALSE, chunksCount |-> 0]]_vars

\* An upload has failed after its first chunk was embedded, while the store
\* held the chunks of an earlier document.
C18_Witness ==
    /\ uploadPc = "idle"
    /\ uploadResult = [file |-> upload.file, success |-> FALSE, chunksCount |-> 0]
    /\ embedResult.status = "error"
    /\ Len(collected) >= 1
    /\ documentStore # <<>>

-----------------------------------------------------------------------------
(* Text normalization on its own: cleanText applied to a string, and again   *)
(* to its own result.                                                        *)

\* Longest string handed to cleanText.
MaxRawLen == 4

\* A letter and the three whitespace characters of the model.
RawChars == {"a", " ", "\n", "\t"}

RawTexts == UNION { [1..n -> RawChars] : n \in 0..MaxRawLen }

CleanInit ==
    /\ rawText \in RawTexts
    /\ cleanedTexts = <<>>
    /\ RankIdle
    /\ ChunkIdle
    /\ EmbedIdle
    /\ QueryIdle
    /\ UploadIdle
    /\ ModelIdle
    /\ ServiceIdle

nonCleanVars == <<rankVars, chunkVars, embedVars, queryVars, uploadVars, modelVars,
                  serviceVars>>

\* cleanText(text)
CleanText ==
    /\ cleanedTexts = <<>>
    /\ cleanedTexts' = <<cleanText(rawText)>>
    /\ UNCHANGED <<rawText, nonCleanVars>>

\* cleanText applied to the string cleanText returned.
CleanTextAgain ==
    /\ Len(cleanedTexts) = 1
    /\ cleanedTexts' = Append(cleanedTexts, cleanText(cleanedTexts[1]))
    /\ UNCHANGED <<rawText, nonCleanVars>>

CleanNext ==
    \/ CleanText
    \/ CleanTextAgain

SpecClean == CleanInit /\ [][CleanNext]_vars

-----------------------------------------------------------------------------
(* Properties of cleanText, checked under SpecClean. *)

Normalized(s) ==
    /\ \A i \in 1..Len(s) : s[i] # "\n"
    /\ \A i \in 1..(Len(s) - 1) : ~(IsWhitespace(s[i]) /\ IsWhitespace(s[i + 1]))
    /\ s # <<>> => (~IsWhitespace(s[1]) /\ ~IsWhitespace(s[Len(s)]))

\* C25: cleanText of any string, the empty one included, has no newline, no
\* two adjacent whitespace characters and no whitespace at either end; the
\* empty string gives the empty string; and cleanText of that result is the
\* result itself.
C25_CleanTextIdempotent ==
    /\ Len(cleanedTexts) >= 1 =>
          /\ Normalized(cleanedTexts[1])
          /\ rawText = <<>> => cleanedTexts[1] = <<>>
    /\ Len(cleanedTexts) = 2 => cleanedTexts[2] = cleanedTexts[1]

\* cleanText has been applied twice to a string of a whitespace character, a
\* letter, a newline and one more whitespace character.
C25_Witness ==
    /\ Len(cleanedTexts) = 2
    /\ Len(rawText) = 4
    /\ IsWhitespace(rawText[1])
    /\ rawText[2] = "a"
    /\ rawText[3] = "\n"
    /\ IsWhitespace(rawText[4])
    /\ cleanedTexts[1] = <<"a">>

-----------------------------------------------------------------------------
(* The model cache of embeddings.js: initializeModel, called directly or by  *)
(* generateSingleEmbedding line 39.  A call runs until its next await; the    *)
(* calls of one process interleave at their awaits.                          *)

\* How many initializeModel calls are followed.
MaxInitCalls == 3

NotCalled == [pc |-> "idle", run |-> 0, handle |-> 0]

ModelInit ==
    /\ extractor = 0
    /\ pipelineRuns = 0
    /\ initCalls = [c \in 1..MaxInitCalls |-> NotCalled]
    /\ RankIdle
    /\ ChunkIdle
    /\ EmbedIdle
    /\ QueryIdle
    /\ UploadIdle
    /\ CleanIdle
    /\ ServiceIdle

nonModelVars == <<rankVars, chunkVars, embedVars, queryVars, uploadVars, cleanVars,
                  serviceVars>>

\* initializeModel lines 23-25 and 29: with the cache set the call returns it;
\* with the cache null it goes on to await import().
InitializeModel(c) ==
    /\ initCalls[c].pc = "idle"
    /\ IF extractor # 0
       THEN initCalls' = [initCalls EXCEPT ![c] = [pc |-> "done", run |-> 0,
                                                   handle |-> extractor]]
       ELSE initCalls' = [initCalls EXCEPT ![c].pc = "import"]
    /\ UNCHANGED <<extractor, pipelineRuns, nonModelVars>>

\* initializeModel line 26, first half: the import has resolved and pipeline()
\* is called, which starts loading the model; the handle it will resolve to is
\* a new object, named by the number of the run.
StartPipeline(c) ==
    /\ initCalls[c].pc = "import"
    /\ pipelineRuns' = pipelineRuns + 1
    /\ initCalls' = [initCalls EXCEPT ![c] = [pc |-> "load", run |-> pipelineRuns + 1,
                                                handle |-> 0]]
    /\ UNCHANGED <<extractor, nonModelVars>>

\* initializeModel lines 26-29: pipeline() has resolved; the handle is assigned
\* to extractor and extractor is returned.
PipelineResolved(c) ==
    /\ initCalls[c].pc = "load"
    /\ extractor' = initCalls[c].run
    /\ initCalls' = [initCalls EXCEPT ![c] = [pc |-> "done", run |-> initCalls[c].run,
                                                handle |-> initCalls[c].run]]
    /\ UNCHANGED <<pipelineRuns, nonModelVars>>

ModelNext ==
    \E c \in 1..MaxInitCalls :
        \/ InitializeModel(c)
        \/ StartPipeline(c)
        \/ PipelineResolved(c)

SpecModel == ModelInit /\ [][ModelNext]_vars

-----------------------------------------------------------------------------
(* Properties of the model cache, checked under SpecModel. *)

\* C26: however the initializeModel calls interleave, pipeline() is started at
\* most once, and all calls that have returned hold the same handle.
C26_ModelInitializedOnce ==
    /\ pipelineRuns <= 1
    /\ \A c, d \in 1..MaxInitCalls :
          (initCalls[c].pc = "done" /\ initCalls[d].pc = "done") =>
              initCalls[c].handle = initCalls[d].handle

\* A call made once extractor is set starts no pipeline and returns extractor.
InitializedModelReused ==
    [][\A c \in 1..MaxInitCalls :
          (extractor # 0 /\ initCalls[c].pc = "idle" /\ initCalls'[c].pc # "idle") =>
              /\ initCalls'[c] = [pc |-> "done", run |-> 0, handle |-> extractor]
              /\ pipelineRuns' = pipelineRuns
              /\ extractor' = extractor]_vars

-----------------------------------------------------------------------------
(* The GraphQL document service under concurrent requests.  chat and         *)
(* uploadPDF are async functions served on one event loop: a request runs     *)
(* until its next await, and the requests in progress interleave at their     *)
(* awaits.  clearDocuments is synchronous.                                    *)

\* How many chat and uploadPDF requests are followed.
MaxRequests == 3

\* The uploads of the service: a file that cannot be read, a document of two
\* chunks, and under another name a document of one chunk.
ServiceUploads ==
    { [file |-> "x.pdf", readable |-> FALSE, texts |-> <<>>],
      [file |-> "x.pdf", readable |-> TRUE, texts |-> << <<"a">>, <<"b">> >>],
      [file |-> "y.pdf", readable |-> TRUE, texts |-> << <<"a">> >>] }

NoView == [live |-> FALSE, entries |-> <<>>, docs |-> <<>>]

NoRequest ==
    [op |-> "none", pc |-> "idle", u |-> NoUpload, chunks |-> <<>>, embedded |-> <<>>,
     stale |-> FALSE, view |-> NoView, result |-> NoUploadResult]

ServiceInit ==
    /\ documentStore = <<>>
    /\ upload = NoUpload
    /\ uploadPc = "idle"
    /\ uploadResult = NoUploadResult
    /\ uploaded = {}
    /\ requests = [r \in 1..MaxRequests |-> NoRequest]
    /\ cleared = FALSE
    /\ pushed = <<>>
    /\ RankIdle
    /\ ChunkIdle
    /\ EmbedIdle
    /\ QueryIdle
    /\ CleanIdle
    /\ ModelIdle

nonServiceVars == <<rankVars, chunkVars, embedVars, queryVars, cleanVars, modelVars,
                    upload, uploadPc, uploadResult, uploaded>>

\* The request slots are taken in order.
Free(r) ==
    /\ requests[r].op = "none"
    /\ IF r = 1 THEN TRUE ELSE requests[r - 1].op # "none"

Failure(u) == [file |-> u.file, success |-> FALSE, chunksCount |-> 0]

\* A request that has returned: its locals are gone, its result is kept.
Done(req, result) ==
    [req EXCEPT !.pc = "done", !.chunks = <<>>, !.embedded = <<>>, !.stale = FALSE,
                !.result = result]

\* uploadPDF lines 89-110: the request arrives, its file is read and processPDF
\* is called; the function waits for the extraction.
ServiceUploadPDF(r) ==
    /\ Free(r)
    /\ \E u \in ServiceUploads :
          requests' = [requests EXCEPT ![r] = [NoRequest EXCEPT !.op = "upload",
                                                              !.pc = "process",
                                                              !.u = u]]
    /\ UNCHANGED <<documentStore, cleared, pushed, nonServiceVars>>

\* uploadPDF lines 110-113: processPDF returns the chunks and
\* embedDocumentChunks is called; when the extraction throws, the catch block
\* returns the failure.
ServiceProcessPDF(r) ==
    /\ requests[r].op = "upload"
    /\ requests[r].pc = "process"
    /\ requests' = [requests EXCEPT ![r] =
          IF requests[r].u.readable
          THEN [@ EXCEPT !.pc = "embed", !.chunks = processPDF(requests[r].u)]
          ELSE Done(requests[r], Failure(requests[r].u))]
    /\ UNCHANGED <<documentStore, cleared, pushed, nonServiceVars>>

\* Each chunk pushed to documentStore as soon as it is embedded.
ServiceEmbedChunkPushing(r) ==
    /\ requests[r].op = "upload"
    /\ requests[r].pc = "embed"
    /\ Len(requests[r].embedded) < Len(requests[r].chunks)
    /\ \E kind \in {"ok", "error"} :
          LET chunk == requests[r].chunks[Len(requests[r].embedded) + 1]
              embedding == generateEmbedding(Reply(chunk.text, kind))
          IN  IF embedding.failed
              THEN /\ requests' = [requests EXCEPT ![r] =
                                       Done(requests[r], [file |-> requests[r].u.file,
                                                          success |-> FALSE,
                                                          chunksCount |-> 0])]
                   /\ UNCHANGED documentStore
              ELSE /\ requests' = [requests EXCEPT ![r].embedded =
                           Append(@, [text |-> chunk.text, embedding |-> embedding.vector])]
                   /\ documentStore' = documentStore \o
                           <<[id |-> chunk.id, text |-> chunk.text, source |-> chunk.source,
                              chunkIndex |-> chunk.chunkIndex,
                              embedding |-> embedding.vector]>>
    /\ UNCHANGED <<cleared, pushed, nonServiceVars>>

\* embedDocumentChunks lines 26-32: the provider answers for the next chunk;
\* the embedded chunk is pushed to the function's own array, or the error
\* reaches uploadPDF's catch block.
ServiceEmbedChunk(r) ==
    /\ requests[r].op = "upload"
    /\ requests[r].pc = "embed"
    /\ Len(requests[r].embedded) < Len(requests[r].chunks)
    /\ \E kind \in {"ok", "error"} :
          LET chunk == requests[r].chunks[Len(requests[r].embedded) + 1]
              embedding == generateEmbedding(Reply(chunk.text, kind))
          IN  requests' = [requests EXCEPT ![r] =
                  IF embedding.failed
                  THEN Done(requests[r], Failure(requests[r].u))
                  ELSE [@ EXCEPT !.embedded =
                           Append(@, [text |-> chunk.text, embedding |-> embedding.vector])]]
    /\ UNCHANGED <<documentStore, cleared, pushed, nonServiceVars>>

Success(req) ==
    [file |-> req.u.file, success |-> TRUE, chunksCount |-> Len(req.chunks)]

Document(req) == [file |-> req.u.file, count |-> Len(req.chunks), stale |-> req.stale]

\* The embedded chunks put in front of the store.
ServicePushFront(r) ==
    /\ requests[r].op = "upload"
    /\ requests[r].pc = "embed"
    /\ Len(requests[r].embedded) = Len(requests[r].chunks)
    /\ documentStore' =
          EmbeddedChunks(requests[r].chunks, requests[r].embedded) \o documentStore
    /\ pushed' = <<Document(requests[r])>> \o pushed
    /\ requests' = [requests EXCEPT ![r] = Done(requests[r], Success(requests[r]))]
    /\ UNCHANGED <<cleared, nonServiceVars>>

\* uploadPDF lines 113-122: embedDocumentChunks has returned; the one push
\* appends all embedded chunks to the array documentStore names now, and the
\* success result is returned.
ServicePush(r) ==
    /\ requests[r].op = "upload"
    /\ requests[r].pc = "embed"
    /\ Len(requests[r].embedded) = Len(requests[r].chunks)
    /\ documentStore' =
          documentStore \o EmbeddedChunks(requests[r].chunks, requests[r].embedded)
    /\ pushed' = Append(pushed, Document(requests[r]))
    /\ requests' = [requests EXCEPT ![r] = Done(requests[r], Success(requests[r]))]
    /\ UNCHANGED <<cleared, nonServiceVars>>

\* chat lines 78-85: the emptiness test; generateRAGAnswer is handed the array
\* documentStore names and waits for the query embedding.
Chat(r) ==
    /\ Free(r)
    /\ requests' = [requests EXCEPT ![r] =
          IF documentStore = <<>>
          THEN [NoRequest EXCEPT !.op = "chat", !.pc = "done",
                                 !.result = [file |-> "", success |-> FALSE, chunksCount |-> 0]]
          ELSE [NoRequest EXCEPT !.op = "chat", !.pc = "rank",
                                 !.view = [live |-> TRUE, entries |-> <<>>, docs |-> <<>>]]]
    /\ UNCHANGED <<documentStore, cleared, pushed, nonServiceVars>>

\* What the array a chat was handed holds now.
Observed(req) ==
    IF req.view.live THEN [live |-> FALSE, entries |-> documentStore, docs |-> pushed]
    ELSE req.view

\* findRelevantChunks lines 46-52: the query embedding arrives and the map runs
\* over the array the chat was handed, or generateEmbedding throws.  The rest
\* of the chat touches neither the array nor documentStore.
ChatFindRelevantChunks(r) ==
    /\ requests[r].op = "chat"
    /\ requests[r].pc = "rank"
    /\ \E kind \in {"ok", "error"} :
          requests' = [requests EXCEPT ![r] =
              IF kind = "error"
              THEN [@ EXCEPT !.pc = "done", !.view = NoView,
                             !.result = [file |-> "", success |-> FALSE, chunksCount |-> 0]]
              ELSE [@ EXCEPT !.pc = "done", !.view = Observed(requests[r]),
                             !.result = [file |-> "", success |-> TRUE,
                                         chunksCount |-> Len(Observed(requests[r]).entries)]]]
    /\ UNCHANGED <<documentStore, cleared, pushed, nonServiceVars>>

ServiceNext ==
    \/ \E r \in 1..MaxRequests :
          \/ ServiceUploadPDF(r)
          \/ ServiceProcessPDF(r)
          \/ ServiceEmbedChunk(r)
          \/ ServicePush(r)
          \/ Chat(r)
          \/ ChatFindRelevantChunks(r)
    \/ ClearDocuments

SpecService == ServiceInit /\ [][ServiceNext]_vars

-----------------------------------------------------------------------------
(* Properties of the document service, checked under SpecService. *)

\* C21: from a clearDocuments until the next push the store is empty; and the
\* entries of the first document pushed after a clear carry the chunk indexes
\* 0, 1, .. in store order, with the ids made of them.
C21_ClearEmptiesAndRenumbers ==
    cleared =>
        /\ pushed = <<>> => documentStore = <<>>
        /\ pushed # <<>> =>
              /\ Len(documentStore) >= pushed[1].count
              /\ \A i \in 1..pushed[1].count :
                    /\ documentStore[i].source = pushed[1].file
                    /\ documentStore[i].chunkIndex = i - 1
                    /\ documentStore[i].id = <<pushed[1].file, i - 1>>

\* Two uploads of one chunk or more have succeeded; the store was cleared
\* after the first and holds the two chunks of the second.
C21_Witness ==
    /\ cleared
    /\ Len(pushed) = 1
    /\ pushed[1].count = 2
    /\ ~pushed[1].stale
    /\ Len(documentStore) = 2
    /\ requests[1].result.success
    /\ requests[1].result.chunksCount = 1
    /\ requests[2].result.success

\* C22: no two entries of documentStore carry the same id.
C22_UniqueIds ==
    \A i, j \in 1..Len(documentStore) :
        i # j => documentStore[i].id # documentStore[j].id

\* C23: the entries of documentStore are the chunks of one document: they
\* carry one source and the chunk indexes 0, 1, .. of that document, and so
\* does the array a chat ranks against.
C23_SingleDocumentStore ==
    /\ \A i \in 1..Len(documentStore) :
          /\ documentStore[i].source = documentStore[1].source
          /\ documentStore[i].chunkIndex = i - 1
    /\ \A r \in DOMAIN requests :
          \A i \in 1..Len(requests[r].view.entries) :
              /\ requests[r].view.entries[i].source = requests[r].view.entries[1].source
              /\ requests[r].view.entries[i].chunkIndex = i - 1

IsPrefix(a, b) == Len(a) <= Len(b) /\ SubSeq(b, 1, Len(a)) = a

\* Request r returns from a successful uploadPDF in this step.
Uploaded(r) ==
    /\ requests[r].op = "upload"
    /\ requests[r].pc # "done"
    /\ requests'[r].pc = "done"
    /\ requests'[r].result.success

\* C24: every step other than clearDocuments leaves the old contents of
\* documentStore as a prefix of the new; the step in which an upload succeeds
\* adds exactly the chunks of its document after them, in chunk order; and
\* every other step, clearDocuments apart, leaves documentStore as it is.
C24_AppendOnlyBetweenClears ==
    [][\/ ClearDocuments
       \/ /\ IsPrefix(documentStore, documentStore')
          /\ \A r \in DOMAIN requests :
                Uploaded(r) =>
                    /\ Len(documentStore') =
                           Len(documentStore) + requests'[r].result.chunksCount
                    /\ \A i \in 1..requests'[r].result.chunksCount :
                          LET entry == documentStore'[Len(documentStore) + i]
                          IN  /\ entry.source = requests[r].u.file
                              /\ entry.chunkIndex = i - 1
                              /\ entry.text = requests[r].u.texts[i]
          /\ (\A r \in DOMAIN requests : ~Uploaded(r)) => documentStore' = documentStore]_vars

\* The document of two chunks has been pushed after the document of one
\* chunk, with no clear in between.
C24_Witness ==
    /\ ~cleared
    /\ Len(documentStore) = 3
    /\ documentStore[1].source = "y.pdf"
    /\ documentStore[2].source = "x.pdf"
    /\ documentStore[3].chunkIndex = 1

\* The entries that whole documents make: for each document in turn, one entry
\* per chunk, in chunk order.
RECURSIVE Blocks(_)
Blocks(docs) ==
    IF docs = <<>> THEN <<>>
    ELSE [i \in 1..Head(docs).count |-> [source |-> Head(docs).file, chunkIndex |-> i - 1]]
         \o Blocks(Tail(docs))

WholeDocuments(entries, docs) ==
    [i \in 1..Len(entries) |-> [source |-> entries[i].source,
                                chunkIndex |-> entries[i].chunkIndex]] = Blocks(docs)

\* C29: at every moment documentStore holds, for the uploads that have
\* returned successfully since the last clear, all their chunks, document after
\* document and each in chunk order, and holds no chunk of any other upload;
\* and so does the array a chat ranks against when its query embedding arrives.
C29_DocumentsVisibleAtomically ==
    /\ WholeDocuments(documentStore, pushed)
    /\ \A r \in DOMAIN requests :
          requests[r].op = "chat" =>
              WholeDocuments(requests[r].view.entries, requests[r].view.docs)

\* A chat that was called when the store held one document, and before the
\* third request was made, has ranked against the chunks of two documents.
C29_Witness ==
    /\ requests[2].op = "chat"
    /\ requests[2].pc = "done"
    /\ requests[2].result.success
    /\ Len(requests[2].view.docs) = 2
    /\ Len(requests[2].view.entries) = 3
    /\ requests[3].op = "upload"

\* C30: since the last clearDocuments, no upload that was in progress when it
\* ran has added a chunk to documentStore.
C30_ClearedStoreStaysEmpty ==
    cleared => \A i \in 1..Len(pushed) : pushed[i].stale => pushed[i].count = 0

=============================================================================
